---- MODULE Spec2Model ----
(***************************************************************************)
(* Model of the cc-license crate: parsing a Creative Commons license URL   *)
(* into a License {rights, version} and rendering it back to text.         *)
(*                                                                         *)
(* A Rust string is modelled as a sequence of one-character strings, so    *)
(* that the regular expression, the token tables and the format! templates *)
(* work on the characters, as the code does.                               *)
(***************************************************************************)
EXTENDS Naturals, Sequences, FiniteSets, TLC

VARIABLES
    url,          \* argument of the latest License::from_url call
    result,       \* Result<License, ParseError> of the latest from_url call
    license,      \* the License value the caller holds (NoLicense: none yet)
    origin,       \* how the held License was made: "none", "from_url", "literal"
    returned,     \* accessor name -> <<>> (not called yet) or <<latest return value>>
    calls,        \* number of from_url calls made so far
    prev,         \* the Result being round-tripped (set by Reparse), else NotCalled
    rights_res,   \* argument and Result of the latest direct Rights::from_str call
    version_res,  \* argument and Result of the latest direct Version::from_str call
    nomen         \* <<>> or <<Nomenclature::from(&license)>>

vars == <<url, result, license, origin, returned, calls, prev,
          rights_res, version_res, nomen>>

----------------------------------------------------------------------------
(* Bounds of the model *)

\* from_url calls in one behaviour
MaxCalls == 2

\* characters following the '?' or '#' of an appended query or fragment
\* (2: the content can hold a '/' that is not its last character)
MaxTail == 2

----------------------------------------------------------------------------
(* error.rs: the four ParseError kinds *)

ParseError == {"InvalidUrl", "InvalidRights", "InvalidVersion",
               "InvalidPublicDomainVersion"}

(* rights.rs, version.rs, nomenclature.rs: the closed enums *)

Rights == {"By", "BySa", "ByNd", "ByNc", "ByNcSa", "ByNcNd", "Zero"}

Version == {"One", "Two", "TwoFive", "Three", "Four"}

Nomenclature == {"Generic", "Unported", "International", "Universal"}

(* lib.rs: struct License { rights, version } *)

License == [rights : Rights, version : Version]

NoLicense == [rights |-> "None", version |-> "None"]

(* Result<T, ParseError>, with T a License or an enum variant *)

Ok(v) == [tag |-> "Ok", err |-> "None", val |-> v]

Err(e) == [tag |-> "Err", err |-> e, val |-> "None"]

OkLicense(l) == [tag |-> "Ok", err |-> "None", license |-> l]

ErrLicense(e) == [tag |-> "Err", err |-> e, license |-> NoLicense]

NotCalled == [tag |-> "None", err |-> "None", license |-> NoLicense]

----------------------------------------------------------------------------
(* rights.rs *)

\* Rights::full_text
full_text(r) ==
    CASE r = "By"     -> <<"A","t","t","r","i","b","u","t","i","o","n">>
      [] r = "BySa"   -> <<"A","t","t","r","i","b","u","t","i","o","n","-","S","h","a","r","e","A","l","i","k","e">>
      [] r = "ByNd"   -> <<"A","t","t","r","i","b","u","t","i","o","n","-","N","o","D","e","r","i","v","a","t","i","v","e","s">>
      [] r = "ByNc"   -> <<"A","t","t","r","i","b","u","t","i","o","n","-","N","o","n","C","o","m","m","e","r","c","i","a","l">>
      [] r = "ByNcSa" -> <<"A","t","t","r","i","b","u","t","i","o","n","-","N","o","n","C","o","m","m","e","r","c","i","a","l","-","S","h","a","r","e","A","l","i","k","e">>
      [] r = "ByNcNd" -> <<"A","t","t","r","i","b","u","t","i","o","n","-","N","o","n","C","o","m","m","e","r","c","i","a","l","-","N","o","D","e","r","i","v","a","t","i","v","e","s">>
      [] r = "Zero"   -> <<"C","C","0">>

\* a Display that writes the abbreviation of by-nc for by-nd as well
Rights_fmt_Merged(r) ==
    CASE r = "By"     -> <<"C","C"," ","B","Y">>
      [] r = "BySa"   -> <<"C","C"," ","B","Y","-","S","A">>
      [] r = "ByNd"   -> <<"C","C"," ","B","Y","-","N","C">>
      [] r = "ByNc"   -> <<"C","C"," ","B","Y","-","N","C">>
      [] r = "ByNcSa" -> <<"C","C"," ","B","Y","-","N","C","-","S","A">>
      [] r = "ByNcNd" -> <<"C","C"," ","B","Y","-","N","C","-","N","D">>
      [] r = "Zero"   -> <<"C","C","0">>

\* impl fmt::Display for Rights
Rights_fmt(r) ==
    CASE r = "By"     -> <<"C","C"," ","B","Y">>
      [] r = "BySa"   -> <<"C","C"," ","B","Y","-","S","A">>
      [] r = "ByNd"   -> <<"C","C"," ","B","Y","-","N","D">>
      [] r = "ByNc"   -> <<"C","C"," ","B","Y","-","N","C">>
      [] r = "ByNcSa" -> <<"C","C"," ","B","Y","-","N","C","-","S","A">>
      [] r = "ByNcNd" -> <<"C","C"," ","B","Y","-","N","C","-","N","D">>
      [] r = "Zero"   -> <<"C","C","0">>

\* a decoder that lower-cases and trims its argument first would accept "BY"
\* and " by": modelled here by accepting those spellings of "by"
Rights_from_str_Folding(s) ==
    CASE s \in {<<"b","y">>, <<"B","y">>, <<"B","Y">>, <<" ","b","y">>, <<"b","y"," ">>} -> Ok("By")
      [] s = <<"b","y","-","s","a">>    -> Ok("BySa")
      [] s = <<"b","y","-","n","d">>    -> Ok("ByNd")
      [] s = <<"b","y","-","n","c">>    -> Ok("ByNc")
      [] s = <<"b","y","-","n","c","-","s","a">> -> Ok("ByNcSa")
      [] s = <<"b","y","-","n","c","-","n","d">> -> Ok("ByNcNd")
      [] s = <<"z","e","r","o">>     -> Ok("Zero")
      [] OTHER           -> Err("InvalidRights")

\* impl FromStr for Rights
Rights_from_str(s) ==
    CASE s = <<"b","y">>       -> Ok("By")
      [] s = <<"b","y","-","s","a">>    -> Ok("BySa")
      [] s = <<"b","y","-","n","d">>    -> Ok("ByNd")
      [] s = <<"b","y","-","n","c">>    -> Ok("ByNc")
      [] s = <<"b","y","-","n","c","-","s","a">> -> Ok("ByNcSa")
      [] s = <<"b","y","-","n","c","-","n","d">> -> Ok("ByNcNd")
      [] s = <<"z","e","r","o">>     -> Ok("Zero")
      [] OTHER           -> Err("InvalidRights")

----------------------------------------------------------------------------
(* version.rs *)

\* a Display that drops the ".0" of version 1.0
Version_fmt_Short(v) ==
    CASE v = "One"     -> <<"1">>
      [] v = "Two"     -> <<"2",".","0">>
      [] v = "TwoFive" -> <<"2",".","5">>
      [] v = "Three"   -> <<"3",".","0">>
      [] v = "Four"    -> <<"4",".","0">>

\* impl fmt::Display for Version
Version_fmt(v) ==
    CASE v = "One"     -> <<"1",".","0">>
      [] v = "Two"     -> <<"2",".","0">>
      [] v = "TwoFive" -> <<"2",".","5">>
      [] v = "Three"   -> <<"3",".","0">>
      [] v = "Four"    -> <<"4",".","0">>

\* impl FromStr for Version
Version_from_str(s) ==
    CASE s = <<"1",".","0">> -> Ok("One")
      [] s = <<"2",".","0">> -> Ok("Two")
      [] s = <<"2",".","5">> -> Ok("TwoFive")
      [] s = <<"3",".","0">> -> Ok("Three")
      [] s = <<"4",".","0">> -> Ok("Four")
      [] OTHER      -> Err("InvalidVersion")

----------------------------------------------------------------------------
(* nomenclature.rs *)

\* impl fmt::Display for Nomenclature
Nomenclature_fmt(n) ==
    CASE n = "Generic"       -> <<"G","e","n","e","r","i","c">>
      [] n = "Unported"      -> <<"U","n","p","o","r","t","e","d">>
      [] n = "International" -> <<"I","n","t","e","r","n","a","t","i","o","n","a","l">>
      [] n = "Universal"     -> <<"U","n","i","v","e","r","s","a","l">>

----------------------------------------------------------------------------
(* lib.rs: CC_REGEX and its matching by regex::Regex::captures              *)
(*                                                                         *)
(* The pattern is a sequence of nodes, matched left to right by            *)
(* backtracking in the regex crate's priority order (leftmost start first, *)
(* greedy repetition and option first, first alternative first).           *)
(*   start     ^                                                           *)
(*   end       $   (no multi-line flag: the end of the haystack only)      *)
(*   lit       the literal alts[1]                                         *)
(*   opt       alts[1], or nothing                                         *)
(*   alt       one of alts, in order                                       *)
(*   cap       (?P<name>[^/]+)                                             *)
(***************************************************************************)

Node(k, alts, name) == [k |-> k, alts |-> alts, name |-> name]

\* the pattern without its trailing $ : a prefix match
CC_REGEX_Unanchored ==
    << Node("start", <<>>, ""),
       Node("lit", << <<"h","t","t","p">> >>, ""),
       Node("opt", << <<"s">> >>, ""),
       Node("lit", << <<":","/","/">> >>, ""),
       Node("opt", << <<"w","w","w",".">> >>, ""),
       Node("lit", << <<"c","r","e","a","t","i","v","e","c","o","m","m","o","n","s",".","o","r","g","/">> >>, ""),
       Node("alt", << <<"l","i","c","e","n","s","e","s">>, <<"p","u","b","l","i","c","d","o","m","a","i","n">> >>, ""),
       Node("lit", << <<"/">> >>, ""),
       Node("cap", <<>>, "rights"),
       Node("lit", << <<"/">> >>, ""),
       Node("cap", <<>>, "version"),
       Node("opt", << <<"/">> >>, "") >>

\* the pattern without its leading ^ : a match may start anywhere
CC_REGEX_NoStart ==
    << Node("lit", << <<"h","t","t","p">> >>, ""),
       Node("opt", << <<"s">> >>, ""),
       Node("lit", << <<":","/","/">> >>, ""),
       Node("opt", << <<"w","w","w",".">> >>, ""),
       Node("lit", << <<"c","r","e","a","t","i","v","e","c","o","m","m","o","n","s",".","o","r","g","/">> >>, ""),
       Node("alt", << <<"l","i","c","e","n","s","e","s">>, <<"p","u","b","l","i","c","d","o","m","a","i","n">> >>, ""),
       Node("lit", << <<"/">> >>, ""),
       Node("cap", <<>>, "rights"),
       Node("lit", << <<"/">> >>, ""),
       Node("cap", <<>>, "version"),
       Node("opt", << <<"/">> >>, ""),
       Node("end", <<>>, "") >>

\* the pattern with licenses as the only first path segment
CC_REGEX_LicensesOnly ==
    << Node("start", <<>>, ""),
       Node("lit", << <<"h","t","t","p">> >>, ""),
       Node("opt", << <<"s">> >>, ""),
       Node("lit", << <<":","/","/">> >>, ""),
       Node("opt", << <<"w","w","w",".">> >>, ""),
       Node("lit", << <<"c","r","e","a","t","i","v","e","c","o","m","m","o","n","s",".","o","r","g","/">> >>, ""),
       Node("alt", << <<"l","i","c","e","n","s","e","s">> >>, ""),
       Node("lit", << <<"/">> >>, ""),
       Node("cap", <<>>, "rights"),
       Node("lit", << <<"/">> >>, ""),
       Node("cap", <<>>, "version"),
       Node("opt", << <<"/">> >>, ""),
       Node("end", <<>>, "") >>

\* ^https?://(www\.)?creativecommons\.org/(licenses|publicdomain)/(?P<rights>[^/]+)/(?P<version>[^/]+)/?$
CC_REGEX ==
    << Node("start", <<>>, ""),
       Node("lit", << <<"h","t","t","p">> >>, ""),
       Node("opt", << <<"s">> >>, ""),
       Node("lit", << <<":","/","/">> >>, ""),
       Node("opt", << <<"w","w","w",".">> >>, ""),
       Node("lit", << <<"c","r","e","a","t","i","v","e","c","o","m","m","o","n","s",".","o","r","g","/">> >>, ""),
       Node("alt", << <<"l","i","c","e","n","s","e","s">>, <<"p","u","b","l","i","c","d","o","m","a","i","n">> >>, ""),
       Node("lit", << <<"/">> >>, ""),
       Node("cap", <<>>, "rights"),
       Node("lit", << <<"/">> >>, ""),
       Node("cap", <<>>, "version"),
       Node("opt", << <<"/">> >>, ""),
       Node("end", <<>>, "") >>

\* a match in progress: the next position, and the named groups set so far
\* (<<>>: the group did not take part, <<text>>: its text)
Conf(pos, r, v) == [pos |-> pos, rights |-> r, version |-> v]

\* does the literal lit occur in s at position pos
LitAt(s, pos, lit) ==
    /\ pos + Len(lit) - 1 <= Len(s)
    /\ \A k \in 1..Len(lit) : s[pos + k - 1] = lit[k]

\* length of the longest run of characters other than '/' in s from pos
RECURSIVE RunNotSlash(_, _)
RunNotSlash(s, pos) ==
    IF pos > Len(s) \/ s[pos] = "/" THEN 0 ELSE 1 + RunNotSlash(s, pos + 1)

\* the ways the literals alts[i..] match at c, in order
RECURSIVE AltFrom(_, _, _, _)
AltFrom(s, c, alts, i) ==
    IF i > Len(alts) THEN <<>>
    ELSE (IF LitAt(s, c.pos, alts[i])
          THEN << [c EXCEPT !.pos = c.pos + Len(alts[i])] >>
          ELSE <<>>) \o AltFrom(s, c, alts, i + 1)

\* the ways [^/]+ matches at c taking n, n-1, .. 1 characters (greedy first)
RECURSIVE CapFrom(_, _, _, _)
CapFrom(s, c, name, n) ==
    IF n = 0 THEN <<>>
    ELSE << [c EXCEPT !.pos = c.pos + n,
                      ![name] = << SubSeq(s, c.pos, c.pos + n - 1) >>] >>
         \o CapFrom(s, c, name, n - 1)

\* the ways one node matches at c, in priority order
StepNode(node, s, c) ==
    CASE node.k = "start" -> IF c.pos = 1 THEN << c >> ELSE <<>>
      [] node.k = "end"   -> IF c.pos = Len(s) + 1 THEN << c >> ELSE <<>>
      [] node.k = "lit"   -> AltFrom(s, c, node.alts, 1)
      [] node.k = "opt"   -> AltFrom(s, c, node.alts, 1) \o << c >>
      [] node.k = "alt"   -> AltFrom(s, c, node.alts, 1)
      [] node.k = "cap"   -> CapFrom(s, c, node.name, RunNotSlash(s, c.pos))

\* the ways re[i..] matches s from each of cs, in priority order
RECURSIVE StepAll(_, _, _, _)
StepAll(node, s, cs, j) ==
    IF j > Len(cs) THEN <<>>
    ELSE StepNode(node, s, cs[j]) \o StepAll(node, s, cs, j + 1)

RECURSIVE Run(_, _, _, _)
Run(re, i, s, cs) ==
    IF cs = <<>> \/ i > Len(re) THEN cs
    ELSE Run(re, i + 1, s, StepAll(re[i], s, cs, 1))

\* Regex::captures: the first match from the leftmost start position that has
\* one, as <<groups>>; <<>> (None) when the pattern matches nowhere
RECURSIVE Search(_, _, _)
Search(re, s, start) ==
    IF start > Len(s) + 1 THEN <<>>
    ELSE LET ms == Run(re, 1, s, << Conf(start, <<>>, <<>>) >>)
         IN  IF ms # <<>> THEN << ms[1] >> ELSE Search(re, s, start + 1)

captures(re, s) == Search(re, s, 1)

----------------------------------------------------------------------------
(* lib.rs: impl License *)

\* a check that lets every pair through
check_Lax(l) == Ok("Unit")

\* License::check
check(l) ==
    IF l.rights = "Zero" /\ l.version # "One"
    THEN Err("InvalidPublicDomainVersion")
    ELSE Ok("Unit")

\* from_url decoding the version token before the rights token
from_url_VersionFirst(u) ==
    LET caps == captures(CC_REGEX, u) IN
    IF caps = <<>> THEN ErrLicense("InvalidUrl")
    ELSE IF caps[1].version = <<>> THEN ErrLicense("InvalidUrl")
    ELSE LET v == Version_from_str(caps[1].version[1]) IN
    IF v.tag = "Err" THEN ErrLicense(v.err)
    ELSE IF caps[1].rights = <<>> THEN ErrLicense("InvalidUrl")
    ELSE LET r == Rights_from_str(caps[1].rights[1]) IN
    IF r.tag = "Err" THEN ErrLicense(r.err)
    ELSE LET l == [rights |-> r.val, version |-> v.val]
             c == check(l)
         IN  IF c.tag = "Err" THEN ErrLicense(c.err) ELSE OkLicense(l)

\* License::from_url
from_url(u) ==
    LET caps == captures(CC_REGEX, u) IN
    IF caps = <<>> THEN ErrLicense("InvalidUrl")
    ELSE IF caps[1].rights = <<>> THEN ErrLicense("InvalidUrl")
    ELSE LET r == Rights_from_str(caps[1].rights[1]) IN
    IF r.tag = "Err" THEN ErrLicense(r.err)
    ELSE IF caps[1].version = <<>> THEN ErrLicense("InvalidUrl")
    ELSE LET v == Version_from_str(caps[1].version[1]) IN
    IF v.tag = "Err" THEN ErrLicense(v.err)
    ELSE LET l == [rights |-> r.val, version |-> v.val]
             c == check(l)
         IN  IF c.tag = "Err" THEN ErrLicense(c.err) ELSE OkLicense(l)

\* License::rights
rights(l) == Rights_fmt(l.rights)

\* License::rights_full
rights_full(l) == full_text(l.rights)

\* License::version
version(l) == Version_fmt(l.version)

\* License::short: format!("{} {}", self.rights, self.version)
short(l) == Rights_fmt(l.rights) \o <<" ">> \o Version_fmt(l.version)

\* a derivation that looks at the version before the rights
Nomenclature_from_VersionFirst(l) ==
    CASE l.version = "Three" -> "Unported"
      [] l.version = "Four"  -> "International"
      [] OTHER -> IF l.rights = "Zero" THEN "Universal" ELSE "Generic"

\* impl From<&License> for Nomenclature
Nomenclature_from(l) ==
    IF l.rights = "Zero" THEN "Universal"
    ELSE CASE l.version = "One"     -> "Generic"
           [] l.version = "Two"     -> "Generic"
           [] l.version = "TwoFive" -> "Generic"
           [] l.version = "Three"   -> "Unported"
           [] l.version = "Four"    -> "International"

\* a to_string that writes the abbreviation where the full text belongs
to_string_Abbrev(l) ==
    <<"C","r","e","a","t","i","v","e"," ","C","o","m","m","o","n","s"," ">> \o rights(l) \o <<" ">> \o Version_fmt(l.version)
    \o <<" ">> \o Nomenclature_fmt(Nomenclature_from(l))
    \o <<" ","l","i","c","e","n","s","e"," ","(">> \o short(l) \o <<")",".">>

\* impl ToString for License:
\* format!("Creative Commons {} {} {} license ({}).", ...)
to_string(l) ==
    <<"C","r","e","a","t","i","v","e"," ","C","o","m","m","o","n","s"," ">> \o rights_full(l) \o <<" ">> \o Version_fmt(l.version)
    \o <<" ">> \o Nomenclature_fmt(Nomenclature_from(l))
    \o <<" ","l","i","c","e","n","s","e"," ","(">> \o short(l) \o <<")",".">>

----------------------------------------------------------------------------
(* The inputs given to from_url: strings put together from pieces, so that  *)
(* every part of the URL shape is present, absent, or wrong in some input.  *)

Schemes == { <<"h","t","t","p",":","/","/">>, <<"h","t","t","p","s",":","/","/">> }

OtherSchemes == { <<>>, <<"f","t","p",":","/","/">>, <<"x","h","t","t","p",":","/","/">>, <<"H","T","T","P","S",":","/","/">> }

HostPrefixes == { <<>>, <<"w","w","w",".">> }

Hosts == { <<"c","r","e","a","t","i","v","e","c","o","m","m","o","n","s",".","o","r","g">> }

OtherHosts == { <<"c","r","e","a","t","i","v","e","c","o","m","m","o","n","s","-","o","r","g">>, <<"c","r","e","a","t","i","v","e","c","o","m","m","o","n","s",".","o","r","g",".","u","k">>, <<"e","x","a","m","p","l","e",".","o","r","g">> }

PathKinds == { <<"l","i","c","e","n","s","e","s">>, <<"p","u","b","l","i","c","d","o","m","a","i","n">> }

OtherPathKinds == { <<"l","i","c","e","n","s","e">>, <<"b","y">> }

RightsTokens ==
    { <<"b","y">>, <<"b","y","-","s","a">>, <<"b","y","-","n","d">>, <<"b","y","-","n","c">>, <<"b","y","-","n","c","-","s","a">>, <<"b","y","-","n","c","-","n","d">>, <<"z","e","r","o">> }

OtherRightsTokens ==
    { <<"B","y">>, <<"B","Y">>, <<" ","b","y">>, <<"b","y"," ">>, <<"C","C"," ","B","Y">>, <<"C","C","0">>, <<"a","t","t","r","i","b","u","t","i","o","n">>, <<"b","y","-","n","c","-","s","a","-","n","d">> }

VersionTokens == { <<"1",".","0">>, <<"2",".","0">>, <<"2",".","5">>, <<"3",".","0">>, <<"4",".","0">> }

OtherVersionTokens == { <<"1">>, <<"2">>, <<"4",".","5">>, <<"5",".","0">>, <<"1",".","0","0">>, <<"v","4",".","0">> }

Slash == { <<>>, <<"/">> }

\* the 8 prefixes of the accepted shape, up to and including "licenses/"
Prefixes ==
    { s \o w \o h \o <<"/">> \o k \o <<"/">> :
        s \in Schemes, w \in HostPrefixes, h \in Hosts, k \in PathKinds }

\* the same pieces with at least one of them wrong
OtherPrefixes ==
    { s \o w \o h \o <<"/">> \o k \o <<"/">> :
        s \in Schemes \cup OtherSchemes, w \in HostPrefixes,
        h \in Hosts \cup OtherHosts, k \in PathKinds \cup OtherPathKinds }
    \ Prefixes

\* <prefix><rights>/<version>[/], the tokens recognised or not
ShapedInputs ==
    { p \o r \o <<"/">> \o v \o t :
        p \in Prefixes, r \in RightsTokens \cup OtherRightsTokens,
        v \in VersionTokens \cup OtherVersionTokens, t \in Slash }

\* the character sequences of length at most n over cs
RECURSIVE SeqsUpTo(_, _)
SeqsUpTo(cs, n) ==
    IF n = 0 THEN { <<>> }
    ELSE LET shorter == SeqsUpTo(cs, n - 1)
         IN  shorter \cup { Append(x, c) : x \in shorter, c \in cs }

\* a query string or a fragment: '?' or '#' and at most MaxTail characters
Tails ==
    { c \o x : c \in { <<"?">>, <<"#">> }, x \in SeqsUpTo({"q", "/"}, MaxTail) }

\* a URL with recognised tokens, followed by a query string or a fragment
TailedInputs ==
    { p \o r \o <<"/">> \o v \o t \o x :
        p \in Prefixes, r \in RightsTokens, v \in VersionTokens,
        t \in Slash, x \in Tails }

\* a wrong scheme, host or first path segment
MisprefixedInputs ==
    { p \o rv \o t :
        p \in OtherPrefixes,
        rv \in { <<"b","y","/","4",".","0">>, <<"z","e","r","o","/","1",".","0">>, <<"z","e","r","o","/","3",".","0">>, <<"B","y","/","4",".","0">>, <<"b","y","/","5",".","0">> },
        t \in Slash }

\* a missing or empty rights or version segment, or an extra segment
MissegmentedInputs ==
    { p \o x :
        p \in Prefixes,
        x \in { <<>>, <<"b","y">>, <<"b","y","/">>, <<"b","y","/","/">>, <<"/","4",".","0">>, <<"/","4",".","0","/">>, <<"/","/">>,
                <<"b","y","/","/","4",".","0">>, <<"b","y","/","4",".","0","/","/">>, <<"b","y","/","4",".","0","/","x">>, <<"b","y","/","4",".","0","/","x","/">>,
                <<"b","y","/","4",".","0","/","l","e","g","a","l","c","o","d","e">>, <<"z","e","r","o","/","1",".","0","/","l","e","g","a","l","c","o","d","e">>, <<"B","y","/","4",".","0","/","x">>,
                <<"b","y","/","5",".","0","/","x">>, <<"z","e","r","o","/","2",".","0","/","/">>, <<"4",".","0">>, <<"z","e","r","o">> } }

Inputs ==
    ShapedInputs \cup TailedInputs \cup MisprefixedInputs \cup MissegmentedInputs

\* the inputs of the calls that follow the first one
LaterInputs ==
    { <<"h","t","t","p","s",":","/","/","c","r","e","a","t","i","v","e","c","o","m","m","o","n","s",".","o","r","g","/","l","i","c","e","n","s","e","s","/","b","y","-","s","a","/","3",".","0","/">>,
      <<"h","t","t","p",":","/","/","w","w","w",".","c","r","e","a","t","i","v","e","c","o","m","m","o","n","s",".","o","r","g","/","p","u","b","l","i","c","d","o","m","a","i","n","/","z","e","r","o","/","1",".","0">>,
      <<"h","t","t","p","s",":","/","/","c","r","e","a","t","i","v","e","c","o","m","m","o","n","s",".","o","r","g","/","l","i","c","e","n","s","e","s","/","b","y","/","5",".","0","/">> }

\* https://creativecommons.org/licenses/<rights>/<version>/ for all 35 pairs
PairInputs ==
    { <<"h","t","t","p","s",":","/","/","c","r","e","a","t","i","v","e","c","o","m","m","o","n","s",".","o","r","g","/","l","i","c","e","n","s","e","s","/">> \o r \o <<"/">> \o v \o <<"/">> :
        r \in RightsTokens, v \in VersionTokens }

\* the arguments of the direct Rights::from_str and Version::from_str calls
Tokens ==
    RightsTokens \cup OtherRightsTokens \cup VersionTokens
    \cup OtherVersionTokens \cup { <<>>, <<"c","c"," ","B","y">>, <<"C","r","e","a","t","i","v","e"," ","C","o","m","m","o","n","s"," ","B","Y">> }

Accessors == {"rights", "rights_full", "version", "short", "to_string"}

----------------------------------------------------------------------------
Init ==
    /\ url = <<>>
    /\ result = NotCalled
    /\ license = NoLicense
    /\ origin = "none"
    /\ returned = [a \in Accessors |-> <<>>]
    /\ calls = 0
    /\ prev = NotCalled
    /\ rights_res = <<>>
    /\ version_res = <<>>
    /\ nomen = <<>>

\* a from_url that hands out one shared License and overwrites it at every
\* successful call
CallFromUrl_Shared(u) ==
    /\ calls < MaxCalls
    /\ url' = u
    /\ result' = from_url(u)
    /\ calls' = calls + 1
    /\ prev' = NotCalled
    /\ IF result'.tag = "Ok"
       THEN license' = result'.license /\ origin' = "from_url"
       ELSE UNCHANGED <<license, origin>>
    /\ UNCHANGED <<returned, rights_res, version_res, nomen>>

\* let r = License::from_url(u); the caller keeps the first License it gets
CallFromUrl(u) ==
    /\ calls < MaxCalls
    /\ url' = u
    /\ result' = from_url(u)
    /\ calls' = calls + 1
    /\ prev' = NotCalled
    /\ IF license = NoLicense /\ result'.tag = "Ok"
       THEN license' = result'.license /\ origin' = "from_url"
       ELSE UNCHANGED <<license, origin>>
    /\ UNCHANGED <<returned, rights_res, version_res, nomen>>

\* the URL rebuilt from a rights token and License::version()
Rebuilt(t, l) ==
    IF t = <<"z","e","r","o">>
    THEN <<"h","t","t","p","s",":","/","/","c","r","e","a","t","i","v","e","c","o","m","m","o","n","s",".","o","r","g","/","p","u","b","l","i","c","d","o","m","a","i","n","/","z","e","r","o","/","1",".","0","/">>
    ELSE <<"h","t","t","p","s",":","/","/","c","r","e","a","t","i","v","e","c","o","m","m","o","n","s",".","o","r","g","/","l","i","c","e","n","s","e","s","/">> \o t \o <<"/">> \o version(l) \o <<"/">>

\* the round trip: after from_url(url) = Ok(l), with t the rights token of
\* url, parse the URL rebuilt from t and l.version()
Reparse ==
    /\ calls < MaxCalls
    /\ result.tag = "Ok"
    /\ LET t == captures(CC_REGEX, url)[1].rights[1]
           u == Rebuilt(t, result.license)
       IN  /\ url' = u
           /\ result' = from_url(u)
    /\ prev' = result
    /\ calls' = calls + 1
    /\ UNCHANGED <<license, origin, returned, rights_res, version_res, nomen>>

\* an accessor call on the held License: a (&self) -> String
Return(a, s) ==
    /\ license # NoLicense
    /\ returned' = [returned EXCEPT ![a] = << s >>]
    /\ UNCHANGED <<url, result, license, origin, calls, prev,
                   rights_res, version_res, nomen>>

CallRights == Return("rights", rights(license))

CallRightsFull == Return("rights_full", rights_full(license))

CallVersion == Return("version", version(license))

CallShort == Return("short", short(license))

CallToString == Return("to_string", to_string(license))

\* Rights::from_str(s), called directly as in rights.rs tests::test_from_string
CallRightsFromStr(s) ==
    /\ rights_res' = << [arg |-> s, res |-> Rights_from_str(s)] >>
    /\ UNCHANGED <<url, result, license, origin, returned, calls, prev,
                   version_res, nomen>>

\* Version::from_str(s), called directly as in version.rs tests::test_from_string
CallVersionFromStr(s) ==
    /\ version_res' = << [arg |-> s, res |-> Version_from_str(s)] >>
    /\ UNCHANGED <<url, result, license, origin, returned, calls, prev,
                   rights_res, nomen>>

\* License { rights: r, version: v }: the struct literal, which only code
\* inside the crate can write (lib.rs tests::to_nomenclature); check is not run
Construct(r, v) ==
    /\ license = NoLicense
    /\ license' = [rights |-> r, version |-> v]
    /\ origin' = "literal"
    /\ UNCHANGED <<url, result, returned, calls, prev,
                   rights_res, version_res, nomen>>

\* Nomenclature::from(&license)
CallNomenclatureFrom ==
    /\ license # NoLicense
    /\ nomen' = << Nomenclature_from(license) >>
    /\ UNCHANGED <<url, result, license, origin, returned, calls, prev,
                   rights_res, version_res>>

\* parsing: one call on any of Inputs, then the round trip or calls on
\* LaterInputs
Next ==
    \/ \E u \in Inputs : calls = 0 /\ CallFromUrl(u)
    \/ \E u \in LaterInputs : calls > 0 /\ CallFromUrl(u)
    \/ Reparse

Spec == Init /\ [][Next]_vars

\* rendering: a License parsed from one of PairInputs, its accessors called
\* in any order, any number of times, with further from_url calls in between
NextRender ==
    \/ \E u \in PairInputs : calls = 0 /\ CallFromUrl(u)
    \/ \E u \in LaterInputs : calls > 0 /\ CallFromUrl(u)
    \/ CallRights
    \/ CallRightsFull
    \/ CallVersion
    \/ CallShort
    \/ CallToString

SpecRender == Init /\ [][NextRender]_vars

\* the token decoders on their own
NextStr ==
    \/ \E s \in Tokens : CallRightsFromStr(s)
    \/ \E s \in Tokens : CallVersionFromStr(s)

SpecStr == Init /\ [][NextStr]_vars

\* the nomenclature of every License value, written as a literal or parsed
NextNomen ==
    \/ \E r \in Rights, v \in Version : Construct(r, v)
    \/ \E u \in PairInputs : CallFromUrl(u)
    \/ CallNomenclatureFrom

SpecNomen == Init /\ [][NextNomen]_vars

----------------------------------------------------------------------------
(* The URL shape and the token tables as the specification words them,      *)
(* stated on the '/'-separated segments of the input rather than by the     *)
(* regular expression.                                                      *)

\* the segments of s between its '/' characters
RECURSIVE SplitFrom(_, _, _)
SplitFrom(s, i, cur) ==
    IF i > Len(s) THEN << cur >>
    ELSE IF s[i] = "/" THEN << cur >> \o SplitFrom(s, i + 1, <<>>)
    ELSE SplitFrom(s, i + 1, Append(cur, s[i]))

Segments(s) == SplitFrom(s, 1, <<>>)

\* scheme://[www.]creativecommons.org/(licenses|publicdomain)/<rights>/<version>[/]
InShape(u) ==
    LET g == Segments(u) IN
    /\ Len(g) \in {6, 7}
    /\ g[1] \in { <<"h","t","t","p",":">>, <<"h","t","t","p","s",":">> }
    /\ g[2] = <<>>
    /\ g[3] \in { <<"c","r","e","a","t","i","v","e","c","o","m","m","o","n","s",".","o","r","g">>, <<"w","w","w",".","c","r","e","a","t","i","v","e","c","o","m","m","o","n","s",".","o","r","g">> }
    /\ g[4] \in { <<"l","i","c","e","n","s","e","s">>, <<"p","u","b","l","i","c","d","o","m","a","i","n">> }
    /\ g[5] # <<>>
    /\ g[6] # <<>>
    /\ Len(g) = 7 => g[7] = <<>>

RightsSegment(u) == Segments(u)[5]

VersionSegment(u) == Segments(u)[6]

\* by -> Attribution, by-sa -> AttributionShareAlike, ...
RightsOfToken(t) ==
    CASE t = <<"b","y">>       -> "By"
      [] t = <<"b","y","-","s","a">>    -> "BySa"
      [] t = <<"b","y","-","n","d">>    -> "ByNd"
      [] t = <<"b","y","-","n","c">>    -> "ByNc"
      [] t = <<"b","y","-","n","c","-","s","a">> -> "ByNcSa"
      [] t = <<"b","y","-","n","c","-","n","d">> -> "ByNcNd"
      [] t = <<"z","e","r","o">>     -> "Zero"

VersionOfToken(t) ==
    CASE t = <<"1",".","0">> -> "One"
      [] t = <<"2",".","0">> -> "Two"
      [] t = <<"2",".","5">> -> "TwoFive"
      [] t = <<"3",".","0">> -> "Three"
      [] t = <<"4",".","0">> -> "Four"

\* the one outcome the fail-fast order gives an input
Outcome(u) ==
    IF ~InShape(u) THEN ErrLicense("InvalidUrl")
    ELSE IF RightsSegment(u) \notin RightsTokens THEN ErrLicense("InvalidRights")
    ELSE IF VersionSegment(u) \notin VersionTokens THEN ErrLicense("InvalidVersion")
    ELSE IF RightsSegment(u) = <<"z","e","r","o">> /\ VersionSegment(u) # <<"1",".","0">>
    THEN ErrLicense("InvalidPublicDomainVersion")
    ELSE OkLicense([rights  |-> RightsOfToken(RightsSegment(u)),
                    version |-> VersionOfToken(VersionSegment(u))])

----------------------------------------------------------------------------
\* C1: every License that from_url returns as Ok has version One (1.0) when
\* its rights are Zero (CC0); no input gives Ok with Zero and 2.0, 2.5, 3.0
\* or 4.0. The License the caller holds from from_url satisfies it too.
C1_ZeroOnlyAtOne ==
    /\ result.tag = "Ok" =>
         (result.license.rights = "Zero" => result.license.version = "One")
    /\ origin = "from_url" =>
         (license.rights = "Zero" => license.version = "One")

\* a CC0 License was returned for an input whose rights token is zero
C1_Witness ==
    /\ result = OkLicense([rights |-> "Zero", version |-> "One"])
    /\ license = result.license
    /\ RightsSegment(url) = <<"z","e","r","o">>

\* C2: from_url gives exactly one outcome per input, decided in the order
\* InvalidUrl (shape), InvalidRights (rights token, whatever the version
\* token), InvalidVersion (version token, also for rights zero),
\* InvalidPublicDomainVersion (zero with a version other than 1.0), else
\* Ok of the two decoded values; an error carries no License.
C2_FailFastOrder ==
    calls > 0 =>
        /\ result = Outcome(url)
        /\ result.tag = "Err" => result.license = NoLicense /\ result.err \in ParseError
        /\ result.tag = "Ok" => result.license \in License /\ result.err = "None"

\* both tokens unrecognised: the rights error wins
C2_Witness ==
    /\ calls > 0
    /\ InShape(url)
    /\ RightsSegment(url) \notin RightsTokens
    /\ VersionSegment(url) \notin VersionTokens
    /\ result = ErrLicense("InvalidRights")

\* C3: every input that is not of the shape
\* scheme://[www.]creativecommons.org/(licenses|publicdomain)/<rights>/<version>[/]
\* gives InvalidUrl, never one of the other three errors (nor Ok).
C3_NotInShapeIsInvalidUrl ==
    (calls > 0 /\ ~InShape(url)) => result = ErrLicense("InvalidUrl")

\* an extra path segment after the version segment
C3_Witness ==
    /\ calls > 0
    /\ Len(Segments(url)) = 7
    /\ Segments(url)[7] = <<"l","e","g","a","l","c","o","d","e">>
    /\ Segments(url)[1] = <<"h","t","t","p","s",":">>
    /\ result = ErrLicense("InvalidUrl")

----------------------------------------------------------------------------
\* the position of the first '?' or '#' of s, 0 when it has none
RECURSIVE MarkFrom(_, _)
MarkFrom(s, i) ==
    IF i > Len(s) THEN 0
    ELSE IF s[i] \in {"?", "#"} THEN i
    ELSE MarkFrom(s, i + 1)

\* s up to its first '?' or '#'
BeforeMark(s) == SubSeq(s, 1, MarkFrom(s, 1) - 1)

\* s after its first '?' or '#'
AfterMark(s) == SubSeq(s, MarkFrom(s, 1) + 1, Len(s))

\* u is an input that from_url accepts, followed by a query string or a fragment
Tailed(u) ==
    /\ MarkFrom(u, 1) > 0
    /\ from_url(BeforeMark(u)).tag = "Ok"

\* C4 as claimed: a query string or fragment appended to an accepted input,
\* directly after the version token or after its trailing slash, makes
\* from_url fail with InvalidUrl.
C4_TailIsInvalidUrl ==
    (calls > 0 /\ Tailed(url)) => result = ErrLicense("InvalidUrl")

\* C4 as amended: a query string or fragment appended to an accepted input
\* always makes from_url fail. The error is InvalidUrl when it is appended
\* after the trailing slash, or when the appended content has a '/' that is
\* not its last character; appended directly after the version token
\* otherwise, it becomes part of the version token and the error is
\* InvalidVersion.
C4_TailIsRejected ==
    (calls > 0 /\ Tailed(url)) =>
        LET base == BeforeMark(url)
            rest == AfterMark(url)
            afterSlash == base[Len(base)] = "/"
            innerSlash == \E k \in 1..(Len(rest) - 1) : rest[k] = "/"
        IN  /\ result.tag = "Err"
            /\ result.license = NoLicense
            /\ result.err = IF afterSlash \/ innerSlash
                            THEN "InvalidUrl" ELSE "InvalidVersion"

\* a query string directly after the version token whose content has a '/'
\* before its last character: InvalidUrl (the case without such a '/',
\* InvalidVersion, is the one that refutes C4 as claimed)
C4_Witness ==
    /\ calls > 0
    /\ Tailed(url)
    /\ BeforeMark(url)[Len(BeforeMark(url))] # "/"
    /\ AfterMark(url) = <<"/","q">>
    /\ result = ErrLicense("InvalidUrl")

----------------------------------------------------------------------------
\* C5: Rights::from_str is Ok exactly for the seven tokens, each to its own
\* variant, and InvalidRights for any other string (other case, padding,
\* the display abbreviations); Version::from_str is Ok exactly for the five
\* version strings, each to its own variant, and InvalidVersion otherwise.
C5_ExactDecoding ==
    /\ rights_res # <<>> =>
         rights_res[1].res =
             IF rights_res[1].arg \in RightsTokens
             THEN Ok(RightsOfToken(rights_res[1].arg))
             ELSE Err("InvalidRights")
    /\ version_res # <<>> =>
         version_res[1].res =
             IF version_res[1].arg \in VersionTokens
             THEN Ok(VersionOfToken(version_res[1].arg))
             ELSE Err("InvalidVersion")

\* a padded rights token and a version outside the table were both refused
C5_Witness ==
    /\ rights_res = << [arg |-> <<" ","b","y">>, res |-> Err("InvalidRights")] >>
    /\ version_res = << [arg |-> <<"4",".","5">>, res |-> Err("InvalidVersion")] >>

----------------------------------------------------------------------------
\* C6: for an input of the URL shape the result depends on the rights and
\* version tokens only: each of the 16 combinations of scheme, www. prefix,
\* first path segment and trailing slash around the same two tokens gives
\* the result this input gave.
C6_TokensDecide ==
    (calls > 0 /\ InShape(url)) =>
        \A p \in Prefixes, t \in Slash :
            from_url(p \o RightsSegment(url) \o <<"/">> \o VersionSegment(url) \o t)
                = result

\* publicdomain/by/4.0 over http and www., without a trailing slash, is CC BY 4.0
C6_Witness ==
    /\ url = <<"h","t","t","p",":","/","/","w","w","w",".","c","r","e","a","t","i","v","e","c","o","m","m","o","n","s",".","o","r","g","/","p","u","b","l","i","c","d","o","m","a","i","n","/","b","y","/","4",".","0">>
    /\ result = OkLicense([rights |-> "By", version |-> "Four"])

----------------------------------------------------------------------------
\* the nomenclature table of the specification
NomenclatureOfPair(l) ==
    IF l.rights = "Zero" THEN "Universal"
    ELSE IF l.version \in {"One", "Two", "TwoFive"} THEN "Generic"
    ELSE IF l.version = "Three" THEN "Unported"
    ELSE "International"

\* C7: the nomenclature of each of the 35 (rights, version) pairs is defined
\* and is Universal for rights Zero (any version), else Generic for 1.0, 2.0
\* and 2.5, Unported for 3.0, International for 4.0; for a License returned
\* by from_url it is Universal exactly for CC0 1.0.
C7_NomenclatureTable ==
    nomen # <<>> =>
        /\ nomen[1] \in Nomenclature
        /\ nomen[1] = NomenclatureOfPair(license)
        /\ origin = "from_url" =>
             (nomen[1] = "Universal" <=>
                 license = [rights |-> "Zero", version |-> "One"])

\* the nomenclature of the literal License {Zero, Four}, which from_url
\* never returns
C7_Witness ==
    /\ origin = "literal"
    /\ license = [rights |-> "Zero", version |-> "Four"]
    /\ nomen = << "Universal" >>

----------------------------------------------------------------------------
\* C8: for a License returned by from_url, short() is rights(), a space and
\* version(); to_string() is "Creative Commons ", rights_full(), a space,
\* version(), a space, the nomenclature, " license (", short() and ").";
\* by-nc-sa/4.0 and zero/1.0 give the two texts of the examples.
C8_Rendering ==
    LET Has(a) == returned[a] # <<>>
        R(a) == returned[a][1]
    IN  /\ (Has("short") /\ Has("rights") /\ Has("version")) =>
              R("short") = R("rights") \o <<" ">> \o R("version")
        /\ (Has("to_string") /\ Has("rights_full") /\ Has("version") /\ Has("short")) =>
              R("to_string") =
                  <<"C","r","e","a","t","i","v","e"," ","C","o","m","m","o","n","s"," ">> \o R("rights_full") \o <<" ">> \o R("version")
                  \o <<" ">> \o Nomenclature_fmt(NomenclatureOfPair(license))
                  \o <<" ","l","i","c","e","n","s","e"," ","(">> \o R("short") \o <<")",".">>
        /\ (Has("to_string") /\ license = [rights |-> "ByNcSa", version |-> "Four"]) =>
              R("to_string") = <<"C","r","e","a","t","i","v","e"," ","C","o","m","m","o","n","s"," ","A","t","t","r","i","b","u","t","i","o","n","-","N","o","n","C","o","m","m","e","r","c","i","a","l","-","S","h","a","r","e","A","l","i","k","e"," ","4",".","0"," ","I","n","t","e","r","n","a","t","i","o","n","a","l"," ","l","i","c","e","n","s","e"," ","(","C","C"," ","B","Y","-","N","C","-","S","A"," ","4",".","0",")",".">>
        /\ (Has("to_string") /\ license = [rights |-> "Zero", version |-> "One"]) =>
              R("to_string") = <<"C","r","e","a","t","i","v","e"," ","C","o","m","m","o","n","s"," ","C","C","0"," ","1",".","0"," ","U","n","i","v","e","r","s","a","l"," ","l","i","c","e","n","s","e"," ","(","C","C","0"," ","1",".","0",")",".">>

\* every accessor of the License parsed from by-nc-sa/4.0 has returned
C8_Witness ==
    /\ origin = "from_url"
    /\ license = [rights |-> "ByNcSa", version |-> "Four"]
    /\ \A a \in Accessors : returned[a] # <<>>
    /\ returned["short"] = << <<"C","C"," ","B","Y","-","N","C","-","S","A"," ","4",".","0">> >>

----------------------------------------------------------------------------
\* C9: after from_url(u) = Ok(L) with rights token t, the URL rebuilt as
\* https://creativecommons.org/licenses/<t>/<L.version()>/ (or
\* https://creativecommons.org/publicdomain/zero/1.0/ for zero) parses to
\* Ok of a License equal to L; and Version::from_str(v.to_string()) = Ok(v)
\* for the version v of every License returned.
C9_RoundTrip ==
    /\ prev.tag = "Ok" => (result.tag = "Ok" /\ result.license = prev.license)
    /\ result.tag = "Ok" =>
         Version_from_str(Version_fmt(result.license.version))
             = Ok(result.license.version)

\* by-nd/2.5 went round
C9_Witness ==
    /\ prev = OkLicense([rights |-> "ByNd", version |-> "TwoFive"])
    /\ url = <<"h","t","t","p","s",":","/","/","c","r","e","a","t","i","v","e","c","o","m","m","o","n","s",".","o","r","g","/","l","i","c","e","n","s","e","s","/","b","y","-","n","d","/","2",".","5","/">>
    /\ result = prev

----------------------------------------------------------------------------
\* C10: once the caller holds a License, no step changes its (rights,
\* version) pair: not an accessor call, not a further from_url call; every
\* accessor can be called on it (none fails); and an accessor that has
\* returned a string returns that string at every later call.
C10_Immutable ==
    /\ [][ /\ license # NoLicense => license' = license
           /\ \A a \in Accessors :
                 returned[a] # <<>> => returned'[a] = returned[a] ]_vars
    /\ [](license # NoLicense =>
            /\ ENABLED CallRights
            /\ ENABLED CallRightsFull
            /\ ENABLED CallVersion
            /\ ENABLED CallShort
            /\ ENABLED CallToString)

\* all five accessors have returned, and a later from_url call has returned
\* another License than the one held
C10_Witness ==
    /\ calls = 2
    /\ license = [rights |-> "By", version |-> "Four"]
    /\ result = OkLicense([rights |-> "BySa", version |-> "Three"])
    /\ \A a \in Accessors : returned[a] # <<>>

----------------------------------------------------------------------------
\* the Licenses from_url returns for the 35 inputs of PairInputs
Returnable ==
    { from_url(u).license : u \in { x \in PairInputs : from_url(x).tag = "Ok" } }

\* C11: rendering is injective on the Licenses from_url returns: the short
\* form an accessor call returned for the held License is the short form of
\* no other returnable License, and likewise its canonical text; so the 31
\* valid (rights, version) pairs have 31 distinct short forms and 31
\* distinct canonical texts.
C11_RenderingInjective ==
    /\ returned["short"] # <<>> =>
         \A l \in Returnable : short(l) = returned["short"][1] => l = license
    /\ returned["to_string"] # <<>> =>
         \A l \in Returnable :
             to_string(l) = returned["to_string"][1] => l = license
    /\ (returned["short"] # <<>> /\ result.tag = "Ok"
            /\ short(result.license) = returned["short"][1]) =>
         result.license = license
    /\ (returned["to_string"] # <<>> /\ result.tag = "Ok"
            /\ to_string(result.license) = returned["to_string"][1]) =>
         result.license = license
    /\ calls > 0 =>
         /\ Cardinality(Returnable) = 31
         /\ Cardinality({ short(l) : l \in Returnable }) = 31
         /\ Cardinality({ to_string(l) : l \in Returnable }) = 31

\* short() and to_string() have returned for CC BY-ND 4.0, and a later
\* from_url call has returned another License
C11_Witness ==
    /\ origin = "from_url"
    /\ license = [rights |-> "ByNd", version |-> "Four"]
    /\ returned["short"] = << <<"C","C"," ","B","Y","-","N","D"," ","4",".","0">> >>
    /\ returned["to_string"] # <<>>
    /\ result = OkLicense([rights |-> "BySa", version |-> "Three"])

====
